---- MODULE Spec2Model ----
(***************************************************************************)
(* Model of src/Integration.ipynb: a Jupyter notebook with five code cells  *)
(* (imports; definitions of lb, ub, nplots, fct, Fct; the plot; the         *)
(* reference integral and its print; an empty cell), executed by a          *)
(* single-threaded kernel one statement after the other.                    *)
(*                                                                          *)
(* Numbers are m * 2^e with m an exact rational, 1 <= |m| < 2 (or 0), and a *)
(* Python type tag: "int" (unbounded), "float" (Python float) or "float64"  *)
(* (numpy scalar).  The binary exponent keeps the range of an IEEE double,  *)
(* so that overflow is modelled; rounding of the mantissa is not.           *)
(***************************************************************************)
EXTENDS Integers, Sequences, FiniteSets, TLC

VARIABLES
    queue,      \* execute requests the kernel has not started yet (cell numbers)
    session,    \* "fresh" | "runall" | "manual": how the user drives the kernel
    nsub,       \* number of single-cell requests submitted so far
    cur,        \* the code cell being executed, 0 when the kernel is idle
    pc,         \* index of the next statement of cell cur
    execCount,  \* the kernel's execution counter
    cellCount,  \* cell -> execution_count shown beside it (0 = null)
    error,      \* <<>> or <<exception, cell, statement>> of the last uncaught exception
    imported,   \* names bound by the import cell
    lb, ub, nplots, fct, Fct, X, reference,  \* notebook-level names: <<>> unbound, <<v>> bound
    Y,          \* the evaluated argument Fct(X) waiting for plt.plot
    fig,        \* matplotlib's current figure
    stdout,     \* lines printed
    trace,      \* history: statements executed, <<cell, statement>>
    nassign,    \* history: name -> number of assignments
    quadCalls,  \* history: argument tuples quad was called with
    quadRet,    \* history: pairs quad returned
    nplotsLit,  \* the literal on the right of "nplots =" in the definitions cell
    arg, ret    \* call harness: the argument and the result of a direct call

vars == <<queue, session, nsub, cur, pc, execCount, cellCount, error, imported,
          lb, ub, nplots, fct, Fct, X, reference, Y, fig, stdout, trace,
          nassign, quadCalls, quadRet, nplotsLit, arg, ret>>

----------------------------------------------------------------------------
(* Bounds of the model *)

\* single-cell execute requests a manual session submits
MaxRuns == 3
\* largest |n| of the Python ints handed to fct by the call harness
MaxInt == 5
\* longest array handed to Fct by the call harness
MaxLen == 2

----------------------------------------------------------------------------
(* Python numbers *)

Abs(n) == IF n < 0 THEN -n ELSE n

RECURSIVE GCD(_, _)
GCD(a, b) == IF b = 0 THEN a ELSE GCD(b, a % b)

RECURSIVE Pow2(_)
Pow2(k) == IF k = 0 THEN 1 ELSE 2 * Pow2(k - 1)

\* the rational n/d in lowest terms with a positive denominator
RatNorm(n, d) ==
    LET s == IF d < 0 THEN -1 ELSE 1
        g == GCD(Abs(n), Abs(d))
    IN  <<(s * n) \div g, (s * d) \div g>>

\* <<n, d, e>> with (n/d) * 2^e the given value and 1 <= |n/d| < 2, or <<0, 1, 0>>
RECURSIVE Normalize(_, _, _)
Normalize(n, d, e) ==
    IF n = 0 THEN <<0, 1, 0>>
    ELSE IF Abs(n) >= 2 * d THEN
        LET r == RatNorm(n, 2 * d) IN Normalize(r[1], r[2], e + 1)
    ELSE IF Abs(n) < d THEN
        LET r == RatNorm(2 * n, d) IN Normalize(r[1], r[2], e - 1)
    ELSE <<n, d, e>>

\* the number (n/d) * 2^e of Python type t
MkNum(t, n, d, e) ==
    LET r == RatNorm(n, d)
        z == Normalize(r[1], r[2], e)
    IN  [t |-> t, m |-> <<z[1], z[2]>>, e |-> z[3]]

PyInt(n) == MkNum("int", n, 1, 0)
PyFloat(n, d) == MkNum("float", n, d, 0)
Float64(n, d) == MkNum("float64", n, d, 0)
AsType(t, x) == [x EXCEPT !.t = t]

\* sys.float_info.max_exp: a double is below 2^1024 in magnitude
DBL_MAX_EXP == 1024

\* IEEE infinity: the exponent past the largest finite one, fraction 0
Inf(t, sign) == [t |-> t, m |-> <<sign, 1>>, e |-> DBL_MAX_EXP]

IsFloat(x) == x.t \in {"float", "float64"}
Overflows(x) == IsFloat(x) /\ x.e >= DBL_MAX_EXP

\* exact arithmetic; the result has type t
NMul(t, x, y) == MkNum(t, x.m[1] * y.m[1], x.m[2] * y.m[2], x.e + y.e)
NNeg(x) == [x EXCEPT !.m = <<-x.m[1], x.m[2]>>]
NAdd(t, x, y) ==
    IF x.m[1] = 0 THEN AsType(t, y)
    ELSE IF y.m[1] = 0 THEN AsType(t, x)
    ELSE LET lo == IF x.e <= y.e THEN x ELSE y
             hi == IF x.e <= y.e THEN y ELSE x
             k  == Pow2(hi.e - lo.e)
         IN  MkNum(t, hi.m[1] * k * lo.m[2] + lo.m[1] * hi.m[2],
                      hi.m[2] * lo.m[2], lo.e)
NSub(t, x, y) == NAdd(t, x, NNeg(y))
NDiv(t, x, y) == MkNum(t, x.m[1] * y.m[2], x.m[2] * y.m[1], x.e - y.e)
NLess(x, y) == NSub("float", x, y).m[1] < 0
NLeq(x, y) == NSub("float", y, x).m[1] >= 0
NumEq(x, y) == x.m = y.m /\ x.e = y.e

\* results of a call: a returned value or an uncaught exception
Ok(v) == <<"ok", v>>
Raised(exc) == <<"raise", exc>>
IsOk(r) == r[1] = "ok"

\* Python's x * y on two numbers of the same type: ints are exact, a float product
\* past the double range is inf
PyMul(x, y) ==
    LET p == NMul(x.t, x, y)
    IN  IF Overflows(p) THEN Inf(x.t, IF p.m[1] < 0 THEN -1 ELSE 1) ELSE p

\* the value of a Python int as a TLA+ integer
ToInt(x) == (x.m[1] * Pow2(x.e)) \div x.m[2]

----------------------------------------------------------------------------
(* The notebook's literals *)

LB == 0
UB == 1
NPLOTS == 100

----------------------------------------------------------------------------
(* fct, and the library functions the notebook calls *)

\* x**2: exact on ints; on a Python float a result past the double range raises
\* OverflowError, on a numpy scalar it is inf
PowSquare(x) ==
    LET sq == NMul(x.t, x, x)
    IN  IF ~Overflows(sq) THEN Ok(sq)
        ELSE IF x.t = "float" THEN Raised("OverflowError")
        ELSE Ok(Inf(x.t, 1))

\* mutant of fct_call: output = x**2 + 1
fct_plus_one(x) == Ok(NAdd(x.t, NMul(x.t, x, x), PyInt(1)))

\* mutant of fct_call: output = x*2
fct_double(x) == Ok(NMul(x.t, PyInt(2), x))

\* def fct(x): output = x**2; return output
\* (output is local to the call: no notebook-level name is read or written)
fct_call(x) ==
    LET output == PowSquare(x)
    IN  output

\* the function object bound to the name fct by the def statement
FctObject == "function fct"

\* f(x) for a function object f
Call(f, x) == IF f = FctObject THEN fct_call(x) ELSE Raised("TypeError")

\* np.vectorize(pyfunc), without otypes
Vectorize(pyfunc) == [pyfunc |-> pyfunc]

\* the first index whose call raised, 0 if none
FirstRaise(rs) ==
    IF \A i \in 1..Len(rs) : IsOk(rs[i]) THEN 0
    ELSE CHOOSE i \in 1..Len(rs) : ~IsOk(rs[i]) /\ \A j \in 1..(i - 1) : IsOk(rs[j])

\* mutant of VectorizedCall: the result of the first element fills the output
VectorizedCallFirst(F, A) ==
    IF Len(A) = 0 THEN Raised("ValueError")
    ELSE LET out == Call(F.pyfunc, AsType("float", A[1]))
         IN  IF ~IsOk(out) THEN out
             ELSE Ok([i \in 1..Len(A) |-> AsType(A[1].t, out[2])])

\* F(A) for a vectorized F and a float64 array A.  numpy refuses a size-0 array
\* when otypes is not set; it calls pyfunc on the first element (a numpy scalar)
\* to learn the output type, then on every element converted to a Python object,
\* and casts the results to the output type.
VectorizedCall(F, A) ==
    IF Len(A) = 0 THEN Raised("ValueError")
    ELSE LET probe == Call(F.pyfunc, A[1])
             outs  == [i \in 1..Len(A) |-> Call(F.pyfunc, AsType("float", A[i]))]
             bad   == FirstRaise(outs)
         IN  IF ~IsOk(probe) THEN probe
             ELSE IF bad # 0 THEN outs[bad]
             ELSE Ok([i \in 1..Len(A) |-> AsType(probe[2].t, outs[i][2])])

\* mutant of Linspace: endpoint=False, the step is (stop - start)/num and the last
\* sample stays below stop
LinspaceNoEndpoint(start, stop, num) ==
    LET a     == AsType("float64", start)
        b     == AsType("float64", stop)
        delta == NSub("float64", b, a)
        step  == IF num > 0 THEN NDiv("float64", delta, PyInt(num)) ELSE delta
    IN  IF num < 0 THEN Raised("ValueError")
        ELSE Ok([i \in 1..num |-> NAdd("float64", NMul("float64", PyInt(i - 1), step), a)])

\* np.linspace(start, stop, num), endpoint=True: num float64 samples,
\* y[i] = i*step + start with step = (stop - start)/(num - 1), and the last
\* sample set to stop
Linspace(start, stop, num) ==
    LET div   == num - 1
        a     == AsType("float64", start)
        b     == AsType("float64", stop)
        delta == NSub("float64", b, a)
        step  == IF div > 0 THEN NDiv("float64", delta, PyInt(div)) ELSE delta
    IN  IF num < 0 THEN Raised("ValueError")
        ELSE Ok([i \in 1..num |->
                    IF i = num /\ num > 1 THEN b
                    ELSE NAdd("float64", NMul("float64", PyInt(i - 1), step), a)])

\* scipy.integrate.quad(func, a, b): the pair (value, abserr) of Python floats.
\* The library's Gauss-Kronrod rule is a weighted sum of func at nodes of [a, b]
\* that is exact on polynomials of low degree; the three-node rule below
\* (weights 1/6, 4/6, 1/6 at a, (a+b)/2, b) stands for it.  abserr is the
\* library's error estimate, which the model leaves open.
Quad(func, a, b, abserr) ==
    LET fa  == AsType("float", a)
        fb  == AsType("float", b)
        mid == NDiv("float", NAdd("float", fa, fb), PyInt(2))
        ya  == Call(func, fa)
        ym  == Call(func, mid)
        yb  == Call(func, fb)
    IN  IF ~IsOk(ya) THEN ya
        ELSE IF ~IsOk(ym) THEN ym
        ELSE IF ~IsOk(yb) THEN yb
        ELSE Ok(<<NDiv("float",
                       NMul("float", NSub("float", fb, fa),
                            NAdd("float", NAdd("float", ya[2], yb[2]),
                                 NMul("float", PyInt(4), ym[2]))),
                       PyInt(6)),
                  abserr>>)

\* error estimates quad may return: 2^-52 and 17 * 2^-52
ErrEstimates == {MkNum("float", k, 1, -52) : k \in {1, 17}}

----------------------------------------------------------------------------
(* The notebook: code cells in file order, and the kernel's state *)

Cells == 1..5
\* number of statements of each code cell; the last cell has an empty source
NStmts(c) == CASE c = 1 -> 6 [] c = 2 -> 5 [] c = 3 -> 7 [] c = 4 -> 2 [] OTHER -> 0

\* mutant of ImportNames: the imports without their "as" aliases
ImportNamesNoAlias(k) ==
    CASE k = 1 -> {"matplotlib"}
      [] k = 2 -> {"matplotlib"}
      [] k = 3 -> {"numpy"}
      [] k = 4 -> {"math"}
      [] k = 5 -> {"sin", "cos", "pi"}
      [] OTHER -> {"quad"}

\* the names each import statement binds
ImportNames(k) ==
    CASE k = 1 -> {"matplotlib"}
      [] k = 2 -> {"plt"}
      [] k = 3 -> {"np"}
      [] k = 4 -> {"math"}
      [] k = 5 -> {"sin", "cos", "pi"}
      [] OTHER -> {"quad"}
\* imports of packages outside the standard library, which may be missing
ThirdParty == {1, 2, 3, 6}

Names == {"lb", "ub", "nplots", "fct", "Fct", "X", "reference"}

Unbound == <<>>
Bound(v) == <<v>>
IsBound(n) == n # <<>>
Val(n) == n[1]

\* every statement of the notebook, in file order
RECURSIVE StmtsFrom(_, _)
StmtsFrom(c, k) ==
    IF c > 5 THEN <<>>
    ELSE IF k > NStmts(c) THEN StmtsFrom(c + 1, 1)
    ELSE <<(<<c, k>>)>> \o StmtsFrom(c, k + 1)
NotebookOrder == StmtsFrom(1, 1)

\* mutants of RunAllRequests: the plot cell ahead of the definitions; every cell twice
RunAllSwapped == <<1, 3, 2, 4, 5>>
RunAllTwice == <<1, 2, 3, 4, 5, 1, 2, 3, 4, 5>>

\* "Run All" sends one execute request per code cell, top to bottom
RunAllRequests == <<1, 2, 3, 4, 5>>

\* the request the kernel serves next: the oldest one
NextRequest(q) == Head(q)
RestRequests(q) == Tail(q)

\* the requests left after an uncaught exception: the kernel aborts them
AfterError(q) == <<>>

kernel == <<queue, session, nsub, cur, pc, execCount, cellCount, error>>
globals == <<imported, lb, ub, nplots, fct, Fct, X, reference>>
outputs == <<Y, fig, stdout>>
history == <<nassign, quadCalls, quadRet>>
harness == <<nplotsLit, arg, ret>>

Fresh ==
    /\ queue = <<>> /\ session = "fresh" /\ nsub = 0
    /\ cur = 0 /\ pc = 0 /\ execCount = 0
    /\ cellCount = [c \in Cells |-> 0]
    /\ error = <<>>
    /\ imported = {}
    /\ lb = Unbound /\ ub = Unbound /\ nplots = Unbound
    /\ fct = Unbound /\ Fct = Unbound /\ X = Unbound /\ reference = Unbound
    /\ Y = Unbound /\ fig = Unbound /\ stdout = <<>>
    /\ trace = <<>>
    /\ nassign = [n \in Names |-> 0]
    /\ quadCalls = <<>> /\ quadRet = <<>>
    /\ arg = <<>> /\ ret = <<>>

Init == Fresh /\ nplotsLit = NPLOTS

----------------------------------------------------------------------------
(* The user *)

\* Kernel > Restart & Run All
RunAll ==
    /\ session = "fresh"
    /\ session' = "runall"
    /\ queue' = RunAllRequests
    /\ UNCHANGED <<nsub, cur, pc, execCount, cellCount, error>>
    /\ UNCHANGED <<globals, outputs, history, harness, trace>>

\* the user runs one cell and waits for it
RunCell(c) ==
    /\ session \in {"fresh", "manual"}
    /\ cur = 0 /\ queue = <<>>
    /\ nsub < MaxRuns
    /\ session' = "manual"
    /\ nsub' = nsub + 1
    /\ queue' = Append(queue, c)
    /\ UNCHANGED <<cur, pc, execCount, cellCount, error>>
    /\ UNCHANGED <<globals, outputs, history, harness, trace>>

----------------------------------------------------------------------------
(* The kernel *)

\* the kernel takes the next request; a non-empty cell gets the next execution count
StartCell ==
    /\ cur = 0 /\ queue # <<>>
    /\ NStmts(NextRequest(queue)) > 0
    /\ cur' = NextRequest(queue)
    /\ pc' = 1
    /\ queue' = RestRequests(queue)
    /\ execCount' = execCount + 1
    /\ cellCount' = [cellCount EXCEPT ![NextRequest(queue)] = execCount + 1]
    /\ error' = <<>>
    /\ UNCHANGED <<session, nsub>>
    /\ UNCHANGED <<globals, outputs, history, harness, trace>>

\* mutant of RunEmptyCell: the empty cell is given an execution count
RunEmptyCellCounted ==
    /\ cur = 0 /\ queue # <<>>
    /\ NStmts(NextRequest(queue)) = 0
    /\ queue' = RestRequests(queue)
    /\ execCount' = execCount + 1
    /\ cellCount' = [cellCount EXCEPT ![NextRequest(queue)] = execCount + 1]
    /\ UNCHANGED <<session, nsub, cur, pc, error>>
    /\ UNCHANGED <<globals, outputs, history, harness, trace>>

\* a request for a cell with an empty source: nothing runs, no count is given
RunEmptyCell ==
    /\ cur = 0 /\ queue # <<>>
    /\ NStmts(NextRequest(queue)) = 0
    /\ queue' = RestRequests(queue)
    /\ UNCHANGED <<session, nsub, cur, pc, execCount, cellCount, error>>
    /\ UNCHANGED <<globals, outputs, history, harness, trace>>

\* statement k of cell c is the one to execute
At(c, k) == cur = c /\ pc = k

\* statement k of cell c ran to its end: on to the next one, or the cell is done
Completes(c, k) ==
    /\ trace' = Append(trace, <<c, k>>)
    /\ IF k = NStmts(c) THEN cur' = 0 /\ pc' = 0 ELSE cur' = cur /\ pc' = k + 1
    /\ UNCHANGED <<queue, session, nsub, execCount, cellCount, error, harness>>

\* statement k of cell c raised exc, which nothing catches: the cell stops there
Raises(c, k, exc) ==
    /\ trace' = Append(trace, <<c, k>>)
    /\ cur' = 0 /\ pc' = 0
    /\ error' = <<exc, c, k>>
    /\ queue' = AfterError(queue)
    /\ UNCHANGED <<session, nsub, execCount, cellCount, harness>>

Assigned(n) == nassign' = [nassign EXCEPT ![n] = @ + 1]

----------------------------------------------------------------------------
(* Cell 1: the imports *)

\* import statement k; a package outside the standard library may be missing
Import(k) ==
    /\ At(1, k)
    /\ \E ok \in BOOLEAN :
        IF ok \/ k \notin ThirdParty
        THEN /\ imported' = imported \cup ImportNames(k)
             /\ Completes(1, k)
             /\ UNCHANGED <<lb, ub, nplots, fct, Fct, X, reference>>
        ELSE /\ Raises(1, k, "ModuleNotFoundError")
             /\ UNCHANGED globals
    /\ UNCHANGED <<outputs, history>>

----------------------------------------------------------------------------
(* Cell 2: the bounds, the sample count, fct and Fct *)

\* lb = 0
AssignLb ==
    /\ At(2, 1)
    /\ lb' = Bound(PyInt(LB))
    /\ Assigned("lb")
    /\ Completes(2, 1)
    /\ UNCHANGED <<imported, ub, nplots, fct, Fct, X, reference>>
    /\ UNCHANGED <<outputs, quadCalls, quadRet>>

\* ub = 1
AssignUb ==
    /\ At(2, 2)
    /\ ub' = Bound(PyInt(UB))
    /\ Assigned("ub")
    /\ Completes(2, 2)
    /\ UNCHANGED <<imported, lb, nplots, fct, Fct, X, reference>>
    /\ UNCHANGED <<outputs, quadCalls, quadRet>>

\* nplots = 100
AssignNplots ==
    /\ At(2, 3)
    /\ nplots' = Bound(PyInt(nplotsLit))
    /\ Assigned("nplots")
    /\ Completes(2, 3)
    /\ UNCHANGED <<imported, lb, ub, fct, Fct, X, reference>>
    /\ UNCHANGED <<outputs, quadCalls, quadRet>>

\* def fct(x): ...
DefFct ==
    /\ At(2, 4)
    /\ fct' = Bound(FctObject)
    /\ Assigned("fct")
    /\ Completes(2, 4)
    /\ UNCHANGED <<imported, lb, ub, nplots, Fct, X, reference>>
    /\ UNCHANGED <<outputs, quadCalls, quadRet>>

\* the function Fct = np.vectorize(...) wraps
VectorizeArg == Val(fct)

\* Fct = np.vectorize(fct)
AssignFct ==
    /\ At(2, 5)
    /\ IF "np" \notin imported
       THEN /\ Raises(2, 5, "NameError")
            /\ UNCHANGED <<globals, nassign>>
       ELSE /\ Fct' = Bound(Vectorize(VectorizeArg))
            /\ Assigned("Fct")
            /\ Completes(2, 5)
            /\ UNCHANGED <<imported, lb, ub, nplots, fct, X, reference>>
    /\ UNCHANGED <<outputs, quadCalls, quadRet>>

----------------------------------------------------------------------------
(* Cell 3: the plot *)

NewFigure == [lines |-> <<>>, xlabel |-> "", ylabel |-> "", shown |-> FALSE]

\* a pyplot call: NameError without plt, and the library may fail
PltCall(k, after) ==
    /\ At(3, k)
    /\ IF "plt" \notin imported
       THEN /\ Raises(3, k, "NameError")
            /\ UNCHANGED fig
       ELSE \E ok \in BOOLEAN :
            IF ok THEN fig' = Bound(after) /\ Completes(3, k)
            ELSE Raises(3, k, "RuntimeError") /\ UNCHANGED fig
    /\ UNCHANGED <<globals, stdout, history>>

\* plt.figure()
PltFigure == PltCall(1, NewFigure) /\ UNCHANGED Y

\* mutant of LinspaceArgs: the grid over [0, 6], the domain of the next integrand
LinspaceArgsWide == <<Val(lb), PyInt(6), ToInt(Val(nplots))>>

\* the arguments of np.linspace(...)
LinspaceArgs == <<Val(lb), Val(ub), ToInt(Val(nplots))>>

\* X = np.linspace(lb,ub,nplots)
AssignX ==
    /\ At(3, 2)
    /\ IF "np" \notin imported \/ ~IsBound(lb) \/ ~IsBound(ub) \/ ~IsBound(nplots)
       THEN /\ Raises(3, 2, "NameError")
            /\ UNCHANGED <<globals, nassign>>
       ELSE LET r == Linspace(LinspaceArgs[1], LinspaceArgs[2], LinspaceArgs[3])
            IN  IF IsOk(r)
                THEN /\ X' = Bound(r[2])
                     /\ Assigned("X")
                     /\ Completes(3, 2)
                     /\ UNCHANGED <<imported, lb, ub, nplots, fct, Fct, reference>>
                ELSE /\ Raises(3, 2, r[2])
                     /\ UNCHANGED <<globals, nassign>>
    /\ UNCHANGED <<outputs, quadCalls, quadRet>>

\* the arguments of plt.plot(X,Fct(X)) are evaluated: Fct(X) is called
EvalFctX ==
    /\ At(3, 3)
    /\ IF "plt" \notin imported \/ ~IsBound(X) \/ ~IsBound(Fct)
       THEN /\ Raises(3, 3, "NameError")
            /\ UNCHANGED Y
       ELSE LET r == VectorizedCall(Val(Fct), Val(X))
            IN  IF IsOk(r)
                THEN Y' = Bound(r[2]) /\ Completes(3, 3)
                ELSE Raises(3, 3, r[2]) /\ UNCHANGED Y
    /\ UNCHANGED <<globals, fig, stdout, history>>

\* plt.plot(X,Fct(X)): the call itself
PltPlot ==
    /\ PltCall(4, [Val(fig) EXCEPT !.lines = Append(@, <<Val(X), Val(Y)>>)])
    /\ Y' = Unbound

\* plt.xlabel('argument')
PltXlabel == PltCall(5, [Val(fig) EXCEPT !.xlabel = "argument"]) /\ UNCHANGED Y

\* plt.ylabel('value of the function')
PltYlabel ==
    PltCall(6, [Val(fig) EXCEPT !.ylabel = "value of the function"]) /\ UNCHANGED Y

\* plt.show()
PltShow == PltCall(7, [Val(fig) EXCEPT !.shown = TRUE]) /\ UNCHANGED Y

----------------------------------------------------------------------------
(* Cell 4: the reference integral *)

\* mutant of QuadArgs: the sample count in the place of the upper bound
QuadArgsNplots == <<Val(fct), Val(lb), Val(nplots)>>

\* the arguments of quad(fct,lb,ub)
QuadArgs == <<Val(fct), Val(lb), Val(ub)>>

\* mutant of Subscript0: [1], the error estimate
Subscript1(pair) == pair[2]

\* the subscript [0]: the first element of the pair
Subscript0(pair) == pair[1]

\* mutant of AssignReference: a failure of quad is caught and reference gets 0.0
AssignReferenceFallback ==
    /\ At(4, 1)
    /\ IF "quad" \notin imported \/ ~IsBound(fct) \/ ~IsBound(lb) \/ ~IsBound(ub)
       THEN /\ Raises(4, 1, "NameError")
            /\ UNCHANGED <<globals, history>>
       ELSE \E abserr \in ErrEstimates, ok \in BOOLEAN :
            LET r == Quad(Val(fct), Val(lb), Val(ub), abserr)
            IN  /\ quadCalls' = Append(quadCalls, <<Val(fct), Val(lb), Val(ub)>>)
                /\ quadRet' = IF ok /\ IsOk(r) THEN Append(quadRet, r[2]) ELSE quadRet
                /\ reference' = IF ok /\ IsOk(r) THEN Bound(r[2][1]) ELSE Bound(PyFloat(0, 1))
                /\ Assigned("reference")
                /\ Completes(4, 1)
                /\ UNCHANGED <<imported, lb, ub, nplots, fct, Fct, X>>
    /\ UNCHANGED outputs

\* reference = quad(fct,lb,ub)[0]
AssignReference ==
    /\ At(4, 1)
    /\ IF "quad" \notin imported \/ ~IsBound(fct) \/ ~IsBound(lb) \/ ~IsBound(ub)
       THEN /\ Raises(4, 1, "NameError")
            /\ UNCHANGED <<globals, history>>
       ELSE \E abserr \in ErrEstimates, ok \in BOOLEAN :
            LET r == Quad(QuadArgs[1], QuadArgs[2], QuadArgs[3], abserr)
            IN  /\ quadCalls' = Append(quadCalls, QuadArgs)
                /\ IF ok /\ IsOk(r)
                   THEN /\ quadRet' = Append(quadRet, r[2])
                        /\ reference' = Bound(Subscript0(r[2]))
                        /\ Assigned("reference")
                        /\ Completes(4, 1)
                        /\ UNCHANGED <<imported, lb, ub, nplots, fct, Fct, X>>
                   ELSE /\ Raises(4, 1, IF IsOk(r) THEN "IntegrationError" ELSE r[2])
                        /\ UNCHANGED <<globals, nassign, quadRet>>
    /\ UNCHANGED outputs

\* what print("Integral by reference method:", v) writes
PrintLine(v) == <<"Integral by reference method:", v>>

\* print("Integral by reference method:",reference)
PrintReference ==
    /\ At(4, 2)
    /\ IF ~IsBound(reference)
       THEN Raises(4, 2, "NameError") /\ UNCHANGED stdout
       ELSE stdout' = Append(stdout, PrintLine(Val(reference))) /\ Completes(4, 2)
    /\ UNCHANGED <<globals, Y, fig, history>>

----------------------------------------------------------------------------

Next ==
    \/ RunAll
    \/ \E c \in Cells : RunCell(c)
    \/ StartCell
    \/ RunEmptyCell
    \/ \E k \in 1..6 : Import(k)
    \/ AssignLb
    \/ AssignUb
    \/ AssignNplots
    \/ DefFct
    \/ AssignFct
    \/ PltFigure
    \/ AssignX
    \/ EvalFctX
    \/ PltPlot
    \/ PltXlabel
    \/ PltYlabel
    \/ PltShow
    \/ AssignReference
    \/ PrintReference

Spec == Init /\ [][Next]_vars

\* what the kernel does on its own (the user's RunAll and RunCell are not among
\* these): it serves the queued requests, one statement after the other.  The
\* three statements that compute numbers are kept apart, below.
KernelStep ==
    \/ StartCell
    \/ RunEmptyCell
    \/ \E k \in 1..6 : Import(k)
    \/ AssignLb \/ AssignUb \/ DefFct \/ AssignFct
    \/ PltFigure \/ AssignX \/ PltPlot
    \/ PltXlabel \/ PltYlabel \/ PltShow
    \/ PrintReference

\* weak fairness of a statement, its enabling condition written out: the
\* statement is enabled exactly when it is the one to execute, since it either
\* completes or raises
AssignNplotsRuns == []<>(~At(2, 3)) \/ []<><<AssignNplots>>_vars
EvalFctXRuns == []<>(~At(3, 3)) \/ []<><<EvalFctX>>_vars
AssignReferenceRuns == []<>(~At(4, 1)) \/ []<><<AssignReference>>_vars

\* the kernel is single-threaded and never idles while a request is queued or
\* a cell is executing, and every statement of the notebook returns or raises
SpecFair ==
    /\ Init /\ [][Next]_vars
    /\ WF_vars(KernelStep)
    /\ AssignNplotsRuns
    /\ EvalFctXRuns
    /\ AssignReferenceRuns

----------------------------------------------------------------------------
(* Runs of the notebook with another sample count typed in the definitions  *)
(* cell: the same cells, the literal of "nplots =" drawn from a small set   *)

NplotsChoices == {2, 7, NPLOTS}

InitRuns == Fresh /\ nplotsLit \in NplotsChoices

SpecRuns == InitRuns /\ [][Next]_vars

----------------------------------------------------------------------------
(* Direct calls of fct and Fct, in the state the definitions cell leaves *)

\* the kernel after the import cell and the definitions cell ran, one after the other
AfterDefinitions ==
    /\ queue = <<>> /\ session = "manual" /\ nsub = 2
    /\ cur = 0 /\ pc = 0 /\ execCount = 2
    /\ cellCount = [c \in Cells |-> IF c <= 2 THEN c ELSE 0]
    /\ error = <<>>
    /\ imported = UNION {ImportNames(k) : k \in 1..6}
    /\ lb = Bound(PyInt(LB)) /\ ub = Bound(PyInt(UB)) /\ nplots = Bound(PyInt(NPLOTS))
    /\ fct = Bound(FctObject) /\ Fct = Bound(Vectorize(FctObject))
    /\ X = Unbound /\ reference = Unbound
    /\ Y = Unbound /\ fig = Unbound /\ stdout = <<>>
    /\ trace = SubSeq(NotebookOrder, 1, NStmts(1) + NStmts(2))
    /\ nassign = [n \in Names |-> IF n \in {"X", "reference"} THEN 0 ELSE 1]
    /\ quadCalls = <<>> /\ quadRet = <<>>
    /\ nplotsLit = NPLOTS

InitCall == AfterDefinitions /\ arg = <<>> /\ ret = <<>>

\* numbers handed to fct: Python ints, and floats of both kinds around 1 and
\* around the square root of the double range
Mantissas == {<<1, 1>>, <<3, 2>>, <<-1, 1>>, <<-3, 2>>}
Exponents == {-1, 0, 1, 511, 512, 1023}
FctInputs ==
    {PyInt(n) : n \in -MaxInt..MaxInt}
    \cup {MkNum(t, m[1], m[2], e) :
            t \in {"float", "float64"}, m \in Mantissas, e \in Exponents}

\* float64 arrays handed to Fct, the empty one included
ArrayElems ==
    {Float64(0, 1), Float64(1, 2), Float64(1, 1), Float64(-3, 2),
     MkNum("float64", 1, 1, 512), MkNum("float64", -3, 2, 600)}
ArrayInputs == UNION {[1..n -> ArrayElems] : n \in 0..MaxLen}

\* fct(x): the call returns or raises; output is a local of the call, so no
\* notebook-level name changes
CallFct(x) ==
    /\ IsBound(fct)
    /\ arg' = <<"fct", x>>
    /\ ret' = Call(Val(fct), x)
    /\ UNCHANGED <<kernel, globals, outputs, history, trace, nplotsLit>>

\* Fct(A)
CallVectorized(A) ==
    /\ IsBound(Fct)
    /\ arg' = <<"Fct", A>>
    /\ ret' = VectorizedCall(Val(Fct), A)
    /\ UNCHANGED <<kernel, globals, outputs, history, trace, nplotsLit>>

NextCall ==
    \/ \E x \in FctInputs : CallFct(x)
    \/ \E A \in ArrayInputs : CallVectorized(A)

SpecCall == InitCall /\ [][NextCall]_vars

----------------------------------------------------------------------------
(* Vocabulary of the properties *)

\* a top-to-bottom run: the user asked for Run All and nothing else
TopToBottom == session = "runall"
\* the run is over: no request is left and no cell is executing
RunOver == TopToBottom /\ queue = <<>> /\ cur = 0
\* ... and no statement raised
RunOverClean == RunOver /\ error = <<>>

IsPrefix(s, t) == Len(s) <= Len(t) /\ SubSeq(t, 1, Len(s)) = s

\* position of statement <<c, k>> in the notebook
Position(c, k) == CHOOSE i \in 1..Len(NotebookOrder) : NotebookOrder[i] = <<c, k>>

Last(s) == s[Len(s)]

----------------------------------------------------------------------------
\* C2: in a top-to-bottom run quad is called at most once, and exactly once when
\* the run ends without an exception; every call passes (fct, lb, ub) in that
\* order; quad returns a pair (value, error estimate); reference holds the
\* first element of the last pair returned and the printed line shows it; the
\* error estimate is in no notebook-level name and in no printed line.
C2_QuadOnceFirstKept ==
    /\ TopToBottom => Len(quadCalls) <= 1
    /\ RunOverClean => Len(quadCalls) = 1 /\ Len(quadRet) = 1
    /\ \A i \in 1..Len(quadCalls) : quadCalls[i] = <<Val(fct), Val(lb), Val(ub)>>
    /\ \A i \in 1..Len(quadRet) : Len(quadRet[i]) = 2 /\ quadRet[i][2] \in ErrEstimates
    /\ IsBound(reference) <=> quadRet # <<>>
    /\ quadRet # <<>> =>
          /\ reference = Bound(Last(quadRet)[1])
          /\ reference # Bound(Last(quadRet)[2])
    /\ \A j \in 1..Len(stdout) :
          /\ \E i \in 1..Len(quadRet) : stdout[j] = PrintLine(quadRet[i][1])
          /\ \A i \in 1..Len(quadRet) : stdout[j][2] # quadRet[i][2]
    /\ \A i \in 1..Len(quadRet) :
          /\ lb # Bound(quadRet[i][2]) /\ ub # Bound(quadRet[i][2])
          /\ nplots # Bound(quadRet[i][2])

\* C2 witness: a top-to-bottom run has called quad once, kept the value and printed it
C2_Witness ==
    /\ RunOverClean
    /\ Len(quadCalls) = 1
    /\ reference = Bound(quadRet[1][1])
    /\ stdout = <<PrintLine(quadRet[1][1])>>

----------------------------------------------------------------------------
\* C4: in a top-to-bottom run the statements executed so far are an initial
\* segment of the notebook's statements in file order (none skipped, none
\* repeated, none out of order), the statement being executed is the next one
\* of that order, a run that ends without an exception has executed them all,
\* and the order is (a) imports, (b) definitions, (c) grid and vectorized
\* evaluation, (d) plot call, (e) reference integral, (f) print.
C4_LinearRun ==
    /\ TopToBottom =>
          /\ IsPrefix(trace, NotebookOrder)
          /\ cur # 0 => <<cur, pc>> = NotebookOrder[Len(trace) + 1]
          /\ cur # 0 => queue = SubSeq(RunAllRequests, cur + 1, 5)
    /\ RunOverClean => trace = NotebookOrder
    /\ Position(1, 6) < Position(2, 1)
    /\ Position(2, 5) < Position(3, 2)
    /\ Position(3, 2) < Position(3, 3)
    /\ Position(3, 3) < Position(3, 4)
    /\ Position(3, 4) < Position(4, 1)
    /\ Position(4, 1) < Position(4, 2)

\* C4 witness: a top-to-bottom run that executed every statement
C4_Witness == RunOverClean /\ Len(trace) = 20 /\ Last(trace) = <<4, 2>>

----------------------------------------------------------------------------
\* C5: in a top-to-bottom run every notebook-level name is assigned at most
\* once, is bound exactly when it has been assigned, all seven have been
\* assigned once when the run ends without an exception, and a step never
\* changes the value of a name that is bound.
C5_Counts ==
    TopToBottom =>
        /\ \A n \in Names : nassign[n] <= 1
        /\ (nassign["lb"] = 1) <=> IsBound(lb)
        /\ (nassign["ub"] = 1) <=> IsBound(ub)
        /\ (nassign["nplots"] = 1) <=> IsBound(nplots)
        /\ (nassign["fct"] = 1) <=> IsBound(fct)
        /\ (nassign["Fct"] = 1) <=> IsBound(Fct)
        /\ (nassign["X"] = 1) <=> IsBound(X)
        /\ (nassign["reference"] = 1) <=> IsBound(reference)
        /\ RunOverClean => \A n \in Names : nassign[n] = 1

C5_Stable ==
    TopToBottom =>
        /\ IsBound(lb) => lb' = lb
        /\ IsBound(ub) => ub' = ub
        /\ IsBound(nplots) => nplots' = nplots
        /\ IsBound(fct) => fct' = fct
        /\ IsBound(Fct) => Fct' = Fct
        /\ IsBound(X) => X' = X
        /\ IsBound(reference) => reference' = reference

C5_AssignedOnce == []C5_Counts /\ [][C5_Stable]_vars

\* C5 witness: a top-to-bottom run ended with the seven names bound, each assigned once
C5_Witness ==
    /\ RunOverClean
    /\ \A n \in Names : nassign[n] = 1
    /\ IsBound(X) /\ IsBound(reference) /\ IsBound(Fct)

----------------------------------------------------------------------------
\* C6: a statement that raises ends its cell at once with the exception
\* recorded as uncaught, and changes no notebook-level name, no printed line
\* and no figure; a failure of quad is never absorbed (a call that returned
\* nothing raised, left reference as it was and printed nothing); no statement
\* of a top-to-bottom run is executed twice; when quad raised in a
\* top-to-bottom run reference is unbound and nothing is printed, and when the
\* plot cell raised X is unbound unless its assignment had completed.
C6_RaisedStep == trace' # trace /\ error' # <<>>

C6_Propagates ==
    C6_RaisedStep =>
        /\ cur' = 0 /\ pc' = 0
        /\ error' = <<error'[1], cur, pc>>
        /\ trace' = Append(trace, <<cur, pc>>)
        /\ UNCHANGED <<globals, stdout, fig, nassign>>

C6_QuadFailure ==
    (Len(quadCalls') = Len(quadCalls) + 1 /\ quadRet' = quadRet) =>
        /\ C6_RaisedStep
        /\ error'[2] = 4 /\ error'[3] = 1
        /\ reference' = reference /\ stdout' = stdout

C6_Unbound ==
    /\ TopToBottom => \A i, j \in 1..Len(trace) : i # j => trace[i] # trace[j]
    /\ (TopToBottom /\ error # <<>>) =>
          /\ cur = 0
          /\ Last(trace) = <<error[2], error[3]>>
          /\ error[2] = 4 => reference = Unbound /\ stdout = <<>>
          /\ (error[2] = 3 /\ error[3] <= 2) => X = Unbound

C6_NoRecovery == []C6_Unbound /\ [][C6_Propagates /\ C6_QuadFailure]_vars

\* C6 witness: in a top-to-bottom run the plot was drawn and then quad failed
C6_Witness ==
    /\ TopToBottom
    /\ error = <<"IntegrationError", 4, 1>>
    /\ IsBound(X) /\ reference = Unbound /\ stdout = <<>>
    /\ Len(quadCalls) = 1

----------------------------------------------------------------------------
\* C7: whatever sample count the definitions cell holds, whether or not the
\* plot cell ran and whatever it drew, reference, once bound, is the same
\* value, the integral of fct over [lb, ub] = 1/3, and every printed line shows
\* that value.
C7_ReferenceIndependent ==
    /\ IsBound(reference) => reference = Bound(PyFloat(1, 3))
    /\ \A j \in 1..Len(stdout) : stdout[j] = PrintLine(PyFloat(1, 3))

\* C7 witness: reference is bound in a run with another sample count whose plot
\* cell never ran
C7_Witness ==
    /\ IsBound(reference) /\ stdout # <<>>
    /\ nplots # Bound(PyInt(NPLOTS))
    /\ X = Unbound /\ fig = Unbound

----------------------------------------------------------------------------
\* C9: Fct wraps the function bound to fct, and that same function is the one
\* handed to quad; the grid X starts at lb, ends at ub and stays inside
\* [lb, ub]; quad integrates from lb to ub; lb = 0 and ub = 1; the line drawn
\* is fct over the grid.
C9_SameProblem ==
    /\ IsBound(lb) => lb = Bound(PyInt(0))
    /\ IsBound(ub) => ub = Bound(PyInt(1))
    /\ IsBound(Fct) => IsBound(fct) /\ Val(Fct).pyfunc = Val(fct)
    /\ \A i \in 1..Len(quadCalls) :
          /\ quadCalls[i][1] = Val(fct)
          /\ IsBound(Fct) => quadCalls[i][1] = Val(Fct).pyfunc
          /\ quadCalls[i][2] = Val(lb) /\ quadCalls[i][3] = Val(ub)
    /\ IsBound(X) =>
          /\ NumEq(Val(X)[1], Val(lb))
          /\ NumEq(Last(Val(X)), Val(ub))
          /\ \A i \in 1..Len(Val(X)) : NLeq(Val(lb), Val(X)[i]) /\ NLeq(Val(X)[i], Val(ub))
    /\ IsBound(fig) =>
          \A l \in 1..Len(Val(fig).lines) :
              LET xs == Val(fig).lines[l][1]
                  ys == Val(fig).lines[l][2]
              IN  /\ xs = Val(X)
                  /\ Len(ys) = Len(xs)
                  /\ \A i \in 1..Len(xs) : Ok(ys[i]) = Call(Val(fct), xs[i])

\* C9 witness: a top-to-bottom run drew the line and called quad
C9_Witness ==
    /\ RunOverClean
    /\ IsBound(X) /\ IsBound(fig) /\ Len(Val(fig).lines) = 1
    /\ Len(quadCalls) = 1

----------------------------------------------------------------------------
\* C10: X has nplots = 100 samples, X[0] = lb = 0, X[99] = ub = 1, consecutive
\* samples differ by (ub - lb)/(nplots - 1) = 1/99, so X is strictly
\* increasing and X[i] = i/99.  (Sequences are 1-based: X[i] is Val(X)[i + 1].)
C10_Grid ==
    IsBound(X) =>
        LET x == Val(X)
        IN  /\ NPLOTS = 100
            /\ nplots = Bound(PyInt(100))
            /\ Len(x) = 100
            /\ x[1] = Float64(0, 1) /\ NumEq(x[1], Val(lb))
            /\ x[100] = Float64(1, 1) /\ NumEq(x[100], Val(ub))
            /\ \A i \in 0..99 : x[i + 1] = Float64(i, 99)
            /\ \A i \in 1..99 : NLess(x[i], x[i + 1])
            /\ \A i \in 1..99 :
                  NSub("float64", x[i + 1], x[i])
                    = NDiv("float64", NSub("float64", Val(ub), Val(lb)), PyInt(99))

\* C10 witness: the grid is bound and the line over it is drawn
C10_Witness ==
    /\ IsBound(X) /\ Len(Val(X)) = NPLOTS
    /\ IsBound(fig) /\ Len(Val(fig).lines) = 1

----------------------------------------------------------------------------
(* Direct calls: fct and Fct *)

\* the notebook-level names hold what the definitions cell left
NamesUntouched ==
    /\ lb = Bound(PyInt(LB)) /\ ub = Bound(PyInt(UB))
    /\ nplots = Bound(PyInt(NPLOTS))
    /\ X = Unbound /\ reference = Unbound

CalledFct == arg # <<>> /\ arg[1] = "fct"
CalledFctVectorized == arg # <<>> /\ arg[1] = "Fct"

\* the square of the float x is past the double range
SquareOverflows(x) == IsFloat(x) /\ Overflows(NMul(x.t, x, x))

----------------------------------------------------------------------------
\* C8 as stated: for every array A, Fct(A) has the length of A and
\* Fct(A)[i] = fct(A[i]) for every index i.
C8_ElementwiseAlways ==
    CalledFctVectorized =>
        /\ IsOk(ret)
        /\ Len(ret[2]) = Len(arg[2])
        /\ \A i \in 1..Len(arg[2]) : Ok(ret[2][i]) = Call(Val(fct), arg[2][i])

\* C8 amended: for every non-empty float array A whose elements have squares
\* within the double range, Fct(A) has the length of A and
\* Fct(A)[i] = fct(A[i]) for every index i, in the order of A; on the empty
\* array Fct raises ValueError.
C8_Elementwise ==
    CalledFctVectorized =>
        /\ Len(arg[2]) = 0 => ret = Raised("ValueError")
        /\ (Len(arg[2]) > 0 /\ \A i \in 1..Len(arg[2]) : ~SquareOverflows(arg[2][i])) =>
              /\ IsOk(ret)
              /\ Len(ret[2]) = Len(arg[2])
              /\ \A i \in 1..Len(arg[2]) : Ok(ret[2][i]) = Call(Val(fct), arg[2][i])

\* C8 witness: Fct was called on [0.5, -1.5] and returned [0.25, 2.25]
C8_Witness ==
    /\ CalledFctVectorized
    /\ arg[2] = <<Float64(1, 2), Float64(-3, 2)>>
    /\ ret = Ok(<<Float64(1, 4), Float64(9, 4)>>)

----------------------------------------------------------------------------
\* C11: in a top-to-bottom run no statement raises NameError, and the names a
\* statement reads from an earlier cell are bound when it is the one to execute
\* (np for Fct = ...; plt from the first plot statement on; np, lb, ub, nplots
\* and Fct in the plot cell; quad, fct, lb, ub in the quadrature cell); in any
\* session, as long as the definition cell has never been run, the grid
\* assignment of the plot cell and the quad statement of the quadrature cell
\* raise NameError, so neither cell runs to its end and neither X nor
\* reference gets bound.
C11_BoundWhenRead ==
    TopToBottom =>
        /\ error # <<>> => error[1] # "NameError"
        /\ At(2, 5) => "np" \in imported
        /\ cur = 3 => "plt" \in imported
        /\ (cur = 3 /\ pc >= 2) =>
              /\ "np" \in imported
              /\ IsBound(lb) /\ IsBound(ub) /\ IsBound(nplots) /\ IsBound(Fct)
        /\ cur = 4 =>
              /\ "quad" \in imported
              /\ IsBound(fct) /\ IsBound(lb) /\ IsBound(ub)

\* the definition cell has never been started
C11_NoDefinitions == cellCount[2] = 0

C11_FailsBefore ==
    C11_NoDefinitions =>
        /\ ~IsBound(lb) /\ ~IsBound(ub) /\ ~IsBound(nplots)
        /\ ~IsBound(fct) /\ ~IsBound(Fct)
        /\ X = Unbound /\ reference = Unbound /\ stdout = <<>>
        /\ \A i \in 1..Len(trace) :
              /\ trace[i][1] = 3 => trace[i][2] <= 2
              /\ trace[i][1] = 4 => trace[i][2] = 1
        /\ (cur = 0 /\ trace # <<>> /\ Last(trace) = <<3, 2>>) =>
              error = <<"NameError", 3, 2>>
        /\ (cur = 0 /\ trace # <<>> /\ Last(trace) = <<4, 1>>) =>
              error = <<"NameError", 4, 1>>

C11_Step ==
    (C11_NoDefinitions /\ (At(3, 2) \/ At(4, 1)) /\ trace' # trace) =>
        /\ error' = <<"NameError", cur, pc>>
        /\ cur' = 0
        /\ UNCHANGED <<globals, outputs>>

C11_NamesBoundInOrder ==
    [](C11_BoundWhenRead /\ C11_FailsBefore) /\ [][C11_Step]_vars

\* C11 witness: the quadrature cell was run after the imports and before the
\* definition cell, and its first statement raised NameError
C11_Witness ==
    /\ session = "manual"
    /\ "quad" \in imported
    /\ cellCount[2] = 0 /\ cellCount[4] > 0
    /\ error = <<"NameError", 4, 1>>
    /\ reference = Unbound /\ stdout = <<>>

----------------------------------------------------------------------------
\* C12: every sequence of values handed to plt.plot (Fct(X) once evaluated, and
\* the ordinates of every line drawn) is non-decreasing in the index, starts at
\* fct(lb) = 0, ends at fct(ub) = 1 and has every value in [0, 1]; reference,
\* once bound, lies in [0, 1], and between (ub - lb) * min and (ub - lb) * max
\* of every such sequence.

\* x <= y, decided on the sign, then the exponent, then the mantissa
C12_Leq(x, y) ==
    IF x.m[1] <= 0 /\ y.m[1] >= 0 THEN TRUE
    ELSE IF x.m[1] >= 0 /\ y.m[1] <= 0 THEN FALSE
    ELSE IF x.m[1] > 0
         THEN x.e < y.e \/ (x.e = y.e /\ x.m[1] * y.m[2] <= y.m[1] * x.m[2])
         ELSE x.e > y.e \/ (x.e = y.e /\ x.m[1] * y.m[2] <= y.m[1] * x.m[2])

\* the sequences of plotted values present in the state
C12_Plotted ==
    (IF IsBound(Y) THEN {Val(Y)} ELSE {})
    \cup (IF IsBound(fig)
          THEN {Val(fig).lines[l][2] : l \in 1..Len(Val(fig).lines)}
          ELSE {})

\* v is the least (the greatest) value of ys: attained, and a bound
C12_IsMin(ys, v) ==
    /\ \E i \in 1..Len(ys) : NumEq(ys[i], v)
    /\ \A j \in 1..Len(ys) : C12_Leq(v, ys[j])
C12_IsMax(ys, v) ==
    /\ \E i \in 1..Len(ys) : NumEq(ys[i], v)
    /\ \A j \in 1..Len(ys) : C12_Leq(ys[j], v)
C12_Width == NSub("int", Val(ub), Val(lb))

C12_PlotBoundsIntegral ==
    /\ \A ys \in C12_Plotted :
          /\ Len(ys) = Len(Val(X))
          /\ \A i \in 1..(Len(ys) - 1) : C12_Leq(ys[i], ys[i + 1])
          /\ NumEq(ys[1], Call(Val(fct), Val(lb))[2])
          /\ NumEq(Last(ys), Call(Val(fct), Val(ub))[2])
          /\ NumEq(ys[1], PyInt(0)) /\ NumEq(Last(ys), PyInt(1))
          /\ \A i \in 1..Len(ys) : C12_Leq(PyInt(0), ys[i]) /\ C12_Leq(ys[i], PyInt(1))
          /\ C12_IsMin(ys, PyInt(0)) /\ C12_IsMax(ys, PyInt(1))
          /\ IsBound(reference) =>
                /\ C12_Leq(NMul("float", C12_Width, PyInt(0)), Val(reference))
                /\ C12_Leq(Val(reference), NMul("float", C12_Width, PyInt(1)))
    /\ IsBound(reference) =>
          /\ C12_Leq(PyInt(0), Val(reference))
          /\ C12_Leq(Val(reference), PyInt(1))

\* C12 witness: a top-to-bottom run drew the 100 values, from 0 to 1, and bound
\* reference to a value strictly between them
C12_Witness ==
    /\ RunOverClean
    /\ Len(Val(fig).lines) = 1
    /\ Len(Val(fig).lines[1][2]) = NPLOTS
    /\ NumEq(Val(fig).lines[1][2][1], PyInt(0))
    /\ NumEq(Val(fig).lines[1][2][NPLOTS], PyInt(1))
    /\ NLess(PyInt(0), Val(reference)) /\ NLess(Val(reference), PyInt(1))

----------------------------------------------------------------------------
\* C13: a top-to-bottom run always comes to its end (no request left, no cell
\* executing) and nothing happens after that; the only exceptions it can end
\* with are raised by library calls (a failed import, pyplot, quad); when it
\* ends without one, every statement has executed once, the four non-empty
\* cells carry the execution counts 1, 2, 3, 4 in notebook order, the empty
\* cell carries none, and exactly one line "Integral by reference method:
\* <reference>" is printed; serving the request of the empty cell changes
\* nothing but the request queue.
C13_LibraryErrors == {"ModuleNotFoundError", "RuntimeError", "IntegrationError"}

C13_Final ==
    /\ execCount = 4
    /\ cellCount = [c \in Cells |-> IF NStmts(c) > 0 THEN c ELSE 0]
    /\ trace = NotebookOrder
    /\ IsBound(reference)
    /\ stdout = <<PrintLine(Val(reference))>>

C13_Counts ==
    /\ (TopToBottom /\ error # <<>>) => error[1] \in C13_LibraryErrors
    /\ TopToBottom =>
          /\ execCount <= 4 /\ Len(stdout) <= 1
          /\ \A c \in Cells : cellCount[c] \in {0, c}
          /\ cellCount[5] = 0
    /\ RunOverClean => C13_Final

\* the kernel serves the request of the empty cell
C13_EmptyCellServed ==
    /\ cur = 0 /\ queue # <<>> /\ NStmts(Head(queue)) = 0
    /\ queue' = Tail(queue)

C13_EmptyCell ==
    C13_EmptyCellServed =>
        /\ UNCHANGED <<session, nsub, cur, pc, execCount, cellCount, error>>
        /\ UNCHANGED <<globals, outputs, history, harness, trace>>

\* no step starts in a state where the top-to-bottom run is over
C13_Halted == ~RunOver

C13_Terminates ==
    /\ TopToBottom ~> RunOver
    /\ []C13_Counts
    /\ [][C13_EmptyCell /\ C13_Halted]_vars

\* C13 witness: a top-to-bottom run is over with the counts 1, 2, 3, 4, none for
\* the empty cell, and one printed line
C13_Witness ==
    /\ RunOverClean
    /\ cellCount = <<1, 2, 3, 4, 0>>
    /\ execCount = 4
    /\ Len(stdout) = 1 /\ stdout[1][1] = "Integral by reference method:"

====
